---- MODULE Spec2Model ----
(***************************************************************************)
(* Model of handler.py: load_params (the paginated configuration loader)   *)
(* and check_open_pull_requests (fetch the open pull requests, format the  *)
(* digest, post it to the chat webhook).  One run of the entry point is    *)
(* one behaviour; the parameter store's pages and the pull requests the    *)
(* API holds are the environment, fixed by Init.  Texts are strings, built *)
(* by the same concatenations the code makes.                              *)
(***************************************************************************)
EXTENDS Integers, Sequences, FiniteSets, TLC

VARIABLES
    pc,                  \* where the run is: load, fetch, format, done, failed
    ssm_pages,           \* environment: the pages the parameter store serves
    github_edges,        \* environment: data.search.edges the API would return
    now,                 \* environment: datetime.utcnow(), in seconds
    args,                \* load_params: the request arguments
    more,                \* load_params: None, False or the continuation token
    config,              \* load_params: the mapping being built
    calls,               \* log of the external calls made, in order
    result,              \* the GraphQL response
    idx,                 \* position of the for loop over the edges
    time_since_created,  \* loop local of the last iteration
    activity,            \* loop local of the last iteration
    block,               \* text the last iteration appended to message
    message,             \* the digest
    r,                   \* the webhook response
    ret                  \* the value the entry point returned

vars == <<pc, ssm_pages, github_edges, now, args, more, config, calls, result,
          idx, time_since_created, activity, block, message, r, ret>>

----------------------------------------------------------------------------
(* Bounds of the model *)

MaxPages == 3
MaxPRs == 2
MaxDays == 7
MaxReviews == 3

----------------------------------------------------------------------------
(* Python string helpers *)

\* t in s, for two str
Contains(s, t) ==
    \E i \in 1..(Len(s) - Len(t) + 1) : SubSeq(s, i, i + Len(t) - 1) = t

FirstIndex(s, sep) ==
    CHOOSE i \in 1..Len(s) :
        /\ SubSeq(s, i, i) = sep
        /\ \A j \in 1..(i - 1) : SubSeq(s, j, j) # sep

\* s.split(sep) for a one-character sep
RECURSIVE Split(_, _)
Split(s, sep) ==
    IF ~Contains(s, sep)
    THEN <<s>>
    ELSE LET i == FirstIndex(s, sep)
         IN  <<SubSeq(s, 1, i - 1)>> \o Split(SubSeq(s, i + 1, Len(s)), sep)

\* the plural taken for every count
PluralAlways(n) == "s"

\* '' if n == 1 else 's'
Plural(n) == IF n = 1 THEN "" ELSE "s"

----------------------------------------------------------------------------
(* load_params *)

Path == "/dev_tools/dev/"

PyNone == [tag |-> "None"]
PyFalse == [tag |-> "False"]
PyStr(s) == [tag |-> "str", value |-> s]

\* truth value of `more`
Truthy(m) == m.tag = "str" /\ m.value # ""

\* the continuation token never passed on
RequestArgsNoToken(a, m) == a

\* args after "if more: args['NextToken'] = more"
RequestArgs(a, m) ==
    IF Truthy(m) THEN ("NextToken" :> m.value) @@ a ELSE a

\* what the store answers to get_parameters_by_path(**a): the first page
\* without a token, else the page the token names
GetParametersByPath(pages, a) ==
    IF "NextToken" \notin DOMAIN a
    THEN pages[1]
    ELSE pages[CHOOSE k \in 2..Len(pages) : pages[k - 1].NextToken = a.NextToken]

\* param['Name'].split('/')[3]
ParamKey(name) == Split(name, "/")[4]

\* config after the for loop over one page's Parameters
RECURSIVE StoreParams(_, _)
StoreParams(cfg, parameters) ==
    IF parameters = <<>>
    THEN cfg
    ELSE LET param == Head(parameters)
             key == ParamKey(param.Name)
         IN  StoreParams((key :> param.Value) @@ cfg, Tail(parameters))

\* params.get('NextToken', False)
NextMore(params) ==
    IF "NextToken" \in DOMAIN params THEN PyStr(params.NextToken) ELSE PyFalse

----------------------------------------------------------------------------
(* check_open_pull_requests: formatting of one pull request *)

ReviewStates == {"APPROVED", "CHANGES_REQUESTED", "COMMENTED", "DISMISSED", "PENDING"}

\* skip_repositories is the stored value (a str) when the key is configured
\* and the empty tuple otherwise; "repository_name in skip_repositories"
InSkipRepositories(repository_name, ssm_parameters) ==
    IF "pr_skip_repositories" \in DOMAIN ssm_parameters
    THEN Contains(ssm_parameters["pr_skip_repositories"], repository_name)
    ELSE FALSE

SecondsPerDay == 24 * 3600

\* now - created as a timedelta: days and seconds (0 <= seconds < one day).
\* createdAt is held as the second strptime parses it to.
TimeDiff(t, created) ==
    [days |-> (t - created) \div SecondsPerDay,
     seconds |-> (t - created) % SecondsPerDay]

\* the thresholds of the repository-enumeration variant
AgeMarkerEnumeration(days) ==
    IF 2 < days /\ days < 5 THEN " :warning:"
    ELSE IF days >= 5 THEN " :fire:"
    ELSE ""

\* the marker appended for old pull requests
AgeMarker(days) ==
    IF 3 < days /\ days < 6 THEN " :warning:"
    ELSE IF days >= 6 THEN " :fire:"
    ELSE ""

TimeSinceCreated(time_diff) ==
    IF time_diff.days # 0
    THEN ToString(time_diff.days) \o " day" \o Plural(time_diff.days) \o " ago"
             \o AgeMarker(time_diff.days)
    ELSE LET due_hours == time_diff.seconds \div 3600
         IN  IF due_hours # 0
             THEN ToString(due_hours) \o " hour" \o Plural(due_hours) \o " ago"
             ELSE LET minutes_ago == time_diff.seconds \div 60
                  IN  ToString(minutes_ago) \o " minute" \o Plural(minutes_ago)
                          \o " ago"

NoActivity == [s \in ReviewStates |-> 0]

\* activity after the loop over the review edges
RECURSIVE CountReviews(_, _)
CountReviews(act, edges) ==
    IF edges = <<>>
    THEN act
    ELSE CountReviews([act EXCEPT ![Head(edges)] = @ + 1], Tail(edges))

Activity(pr) ==
    IF pr.reviews.totalCount > 0
    THEN CountReviews(NoActivity, pr.reviews.edges)
    ELSE NoActivity

ChangesRequestedText ==
    " :changes_requested: Changes requested, completion may take some time.\n"

\* the line appended inside the loop over the reviews: once per review
RECURSIVE Repeat(_, _)
Repeat(text, n) == IF n = 0 THEN "" ELSE text \o Repeat(text, n - 1)
ChangesRequestedLinePerReview(pr, act) ==
    IF pr.reviews.totalCount > 0
    THEN Repeat(ChangesRequestedText, act["CHANGES_REQUESTED"])
    ELSE ""

ChangesRequestedLine(pr, act) ==
    IF pr.reviews.totalCount > 0 /\ act["CHANGES_REQUESTED"] # 0
    THEN ChangesRequestedText
    ELSE ""

ReviewersLine(pr) ==
    IF pr.reviewRequests.totalCount # 0
    THEN " Reviewers: " \o ToString(pr.reviewRequests.totalCount) \o " pending.\n"
    ELSE " No pending reviewers.\n"

ActivityMsg(act) ==
    LET approved ==
            IF act["APPROVED"] # 0
            THEN ToString(act["APPROVED"]) \o " approval" \o Plural(act["APPROVED"])
            ELSE ""
        commented ==
            IF act["COMMENTED"] # 0
            THEN ", " \o ToString(act["COMMENTED"]) \o " comment"
                     \o Plural(act["COMMENTED"])
            ELSE ""
        dismissed ==
            IF act["DISMISSED"] # 0
            THEN ", " \o ToString(act["DISMISSED"]) \o " dismissed approval"
                     \o Plural(act["DISMISSED"])
            ELSE ""
    IN  approved \o commented \o dismissed

ActivityLine(act) ==
    IF ActivityMsg(act) # ""
    THEN " Activity: " \o ActivityMsg(act) \o ".\n"
    ELSE ""

\* everything one iteration of the loop appends to message
PRBlock(pr, t) ==
    LET act == Activity(pr)
    IN  " Repository: " \o pr.repository.name \o "."
        \o " Pull: " \o pr.title \o ".\n"
        \o " URL: " \o pr.url \o ".\n"
        \o ChangesRequestedLine(pr, act)
        \o " Author: " \o pr.author.login \o ". Created: "
        \o TimeSinceCreated(TimeDiff(t, pr.createdAt)) \o "\n"
        \o ReviewersLine(pr)
        \o ActivityLine(act)
        \o "\n"

\* the guard of the post left out: a post for every digest, empty or not
ShouldNotifyAlways(msg) == TRUE

\* "if message:"
ShouldNotify(msg) == msg # ""

SlackText(msg) == "The following pull requests are OPEN:\n\n" \o msg

----------------------------------------------------------------------------
(* The environment: what the parameter store and the API hold *)

Min(a, b) == IF a < b THEN a ELSE b

BoundedSeq(S, n) == UNION {[1..k -> S] : k \in 0..n}

Parameter(key, value) == [Name |-> Path \o key, Value |-> value]

\* the parameters lie directly under the path, one per configuration key
RequiredParameters ==
    <<Parameter("github_access_token", "ghp_token"),
      Parameter("github_organization", "acme"),
      Parameter("slack_access_token", "xoxb_token"),
      Parameter("slack_webhook_url", "https://hooks.slack.test/services/T1")>>

\* the required parameters with pr_skip_repositories holding `value` put
\* after the first `at` of them
WithSkipParameter(value, at) ==
    SubSeq(RequiredParameters, 1, at)
        \o <<Parameter("pr_skip_repositories", value)>>
        \o SubSeq(RequiredParameters, at + 1, Len(RequiredParameters))

\* the parameters served in at most n pages: every page but the last
\* carries the token of the next one
Paginate(parameters, n) ==
    LET size == (Len(parameters) + n - 1) \div n
        count == (Len(parameters) + size - 1) \div size
        Chunk(k) == SubSeq(parameters, (k - 1) * size + 1,
                           Min(k * size, Len(parameters)))
    IN  [k \in 1..count |->
            IF k < count
            THEN [Parameters |-> Chunk(k), NextToken |-> "token" \o ToString(k + 1)]
            ELSE [Parameters |-> Chunk(k)]]

Stores(skipValues, positions, pageCounts) ==
    {Paginate(ps, n) :
        ps \in {RequiredParameters}
                 \cup {WithSkipParameter(v, at) : v \in skipValues, at \in positions},
        n \in pageCounts}

NowUTC == 400 * SecondsPerDay

PullRequest(repo, elapsed, reviews, requested) ==
    [repository |-> [name |-> repo],
     title |-> "Update " \o repo,
     url |-> "https://github.com/acme/" \o repo \o "/pull/1",
     createdAt |-> NowUTC - elapsed,
     author |-> [login |-> "octocat"],
     reviewRequests |-> [totalCount |-> requested],
     reviews |-> [totalCount |-> Len(reviews), edges |-> reviews]]

RepositoryNames == {"api", "api-gateway", "web"}

\* the pipeline as a whole: a few repositories, skip values and reviews
MainStores == Stores({"api-gateway", "api-gateway,web"}, {0}, 1..MaxPages)
MainPullRequests ==
    {PullRequest(repo, 90 * 60, reviews, 0) :
        repo \in RepositoryNames,
        reviews \in {<<>>, <<"CHANGES_REQUESTED", "APPROVED">>}}

\* the loader: the optional parameter at every place, every page count
LoaderStores ==
    Stores({"web", "api-gateway,web"}, 0..Len(RequiredParameters),
           1..(MaxPages + 2))

\* ages: every day count, and the hours and minutes around the thresholds.
\* A pull request exists before the run reads the clock: createdAt <= now.
Ages ==
    {d * SecondsPerDay + h * 3600 + m * 60 + sec :
        d \in 0..MaxDays, h \in {0, 1, 2, 23}, m \in {0, 1, 2, 30, 45, 59},
        sec \in {0, 59}}
AgePullRequests == {PullRequest("api", e, <<>>, 0) : e \in Ages}

\* reviews: every sequence of review states up to MaxReviews
ReviewPullRequests ==
    {PullRequest("api", 90 * 60, reviews, requested) :
        reviews \in BoundedSeq(ReviewStates, MaxReviews), requested \in {0, 2}}

----------------------------------------------------------------------------
(* The run *)

Unset == [tag |-> "unset"]
PyDict == [tag |-> "dict", len |-> 0]

InitWith(stores, pullRequests, maxEdges) ==
    /\ pc = "load"
    /\ ssm_pages \in stores
    /\ github_edges \in BoundedSeq(pullRequests, maxEdges)
    /\ now = NowUTC
    /\ args = [Path |-> Path, Recursive |-> TRUE, WithDecryption |-> TRUE]
    /\ more = PyNone
    /\ config = <<>>
    /\ calls = <<>>
    /\ result = Unset
    /\ idx = 0
    /\ time_since_created = ""
    /\ activity = NoActivity
    /\ block = ""
    /\ message = ""
    /\ r = Unset
    /\ ret = Unset

\* one pass of the while loop of load_params; load_params returns when the
\* page carried no token
LoadPage ==
    /\ pc = "load"
    /\ more # PyFalse
    /\ LET a == RequestArgs(args, more)
           params == GetParametersByPath(ssm_pages, a)
       IN  /\ args' = a
           /\ calls' = Append(calls, [api |-> "ssm", args |-> a])
           /\ config' = StoreParams(config, params.Parameters)
           /\ more' = NextMore(params)
           /\ pc' = IF NextMore(params) = PyFalse THEN "fetch" ELSE "load"
    /\ UNCHANGED <<ssm_pages, github_edges, now, result, idx, time_since_created,
                   activity, block, message, r, ret>>

\* get_parameters_by_path raises: the error propagates out of the entry point
LoadError ==
    /\ pc = "load"
    /\ more # PyFalse
    /\ LET a == RequestArgs(args, more)
       IN  /\ args' = a
           /\ calls' = Append(calls, [api |-> "ssm", args |-> a])
    /\ pc' = "failed"
    /\ UNCHANGED <<ssm_pages, github_edges, now, more, config, result, idx,
                   time_since_created, activity, block, message, r, ret>>

\* the payloads the API may answer with
Payloads ==
    {[data |-> [search |-> [edges |-> github_edges]]],
     [errors |-> <<"Something went wrong">>],
     [data |-> PyNone, errors |-> <<"Something went wrong">>]}

\* "result.status_code != 200"
BadStatus(res) == res.status_code # 200

\* "not data or not data.get('data')"
InvalidData(data) ==
    \/ DOMAIN data = {}
    \/ "data" \notin DOMAIN data
    \/ data.data = PyNone

\* a retry of the request on a status other than 200
PcAfterFetchRetry(res) ==
    IF BadStatus(res) THEN "fetch"
    ELSE IF InvalidData(res.json) THEN "done"
    ELSE "format"

\* where the run goes after the response: both checks end it with a return
PcAfterFetch(res) ==
    IF BadStatus(res) THEN "done"
    ELSE IF InvalidData(res.json) THEN "done"
    ELSE "format"

\* the POST to the GraphQL endpoint and the two checks of its response
Fetch ==
    /\ pc = "fetch"
    /\ \E status \in {200, 502}, data \in Payloads :
        LET res == [status_code |-> status, json |-> data]
        IN  /\ result' = res
            /\ calls' = Append(calls,
                   [api |-> "graphql",
                    authorization |-> "token " \o config["github_access_token"],
                    organization |-> config["github_organization"]])
            /\ pc' = PcAfterFetch(res)
            /\ IF BadStatus(res)
               THEN ret' = PyNone /\ UNCHANGED <<idx, message>>
               ELSE IF InvalidData(data)
               THEN ret' = PyDict /\ UNCHANGED <<idx, message>>
               ELSE idx' = 1 /\ message' = "" /\ ret' = ret
    /\ UNCHANGED <<ssm_pages, github_edges, now, args, more, config,
                   time_since_created, activity, block, r>>

\* one iteration of the for loop over the edges
FormatPR ==
    /\ pc = "format"
    /\ idx <= Len(result.json.data.search.edges)
    /\ LET pr == result.json.data.search.edges[idx]
       IN  IF InSkipRepositories(pr.repository.name, config)
           THEN /\ block' = ""
                /\ UNCHANGED <<time_since_created, activity, message>>
           ELSE /\ time_since_created' = TimeSinceCreated(TimeDiff(now, pr.createdAt))
                /\ activity' = Activity(pr)
                /\ block' = PRBlock(pr, now)
                /\ message' = message \o PRBlock(pr, now)
    /\ idx' = idx + 1
    /\ UNCHANGED <<pc, ssm_pages, github_edges, now, args, more, config, calls,
                   result, r, ret>>

\* the webhook's status raised instead of logged
AfterPostRaises(response) ==
    IF response.status_code # 200 THEN "failed" ELSE "done"

\* where the run goes after the webhook answered: a status other than 200
\* is logged and the return is reached all the same
AfterPost(response) == "done"

\* after the loop: post the digest when there is one, and return it
Notify ==
    /\ pc = "format"
    /\ idx > Len(result.json.data.search.edges)
    /\ \E status \in {200, 500} :
        IF ShouldNotify(message)
        THEN /\ calls' = Append(calls,
                    [api |-> "slack",
                     url |-> config["slack_webhook_url"],
                     authorization |-> "Bearer " \o config["slack_access_token"],
                     text |-> SlackText(message)])
             /\ r' = [status_code |-> status]
             /\ pc' = AfterPost([status_code |-> status])
             /\ ret' = IF AfterPost([status_code |-> status]) = "done"
                       THEN PyStr(message) ELSE ret
        ELSE /\ pc' = "done"
             /\ ret' = PyStr(message)
             /\ UNCHANGED <<calls, r>>
    /\ UNCHANGED <<ssm_pages, github_edges, now, args, more, config, result, idx,
                   time_since_created, activity, block, message>>

Next == LoadPage \/ LoadError \/ Fetch \/ FormatPR \/ Notify

Init == InitWith(MainStores, MainPullRequests, MaxPRs)
Spec == Init /\ [][Next]_vars

InitLoader == InitWith(LoaderStores, MainPullRequests, 1)
SpecLoader == InitLoader /\ [][Next]_vars

InitAge == InitWith(Stores({"web"}, {0}, {1}), AgePullRequests, 1)
SpecAge == InitAge /\ [][Next]_vars

InitReview == InitWith(Stores({"web"}, {0}, {1}), ReviewPullRequests, 1)
SpecReview == InitReview /\ [][Next]_vars

----------------------------------------------------------------------------
(* Vocabulary of the properties *)

StartsWith(s, t) == Len(t) <= Len(s) /\ SubSeq(s, 1, Len(t)) = t

Occurrences(s, t) ==
    Cardinality({i \in 1..(Len(s) - Len(t) + 1) : SubSeq(s, i, i + Len(t) - 1) = t})

CallsTo(api) == SelectSeq(calls, LAMBDA c : c.api = api)

Responded(x) == "status_code" \in DOMAIN x

\* the run got a usable response and went through the whole loop
Formatted ==
    /\ Responded(result)
    /\ ~BadStatus(result)
    /\ ~InvalidData(result.json)
    /\ idx > Len(result.json.data.search.edges)

\* the last iteration of the loop appended a block for LastPR
BlockWritten == idx > 1 /\ block # ""
LastPR == result.json.data.search.edges[idx - 1]
Elapsed == now - LastPR.createdAt

----------------------------------------------------------------------------
(* The pipeline as a whole (Spec) *)

\* C1: the webhook is posted to exactly once in a run whose digest is not
\* empty, and never otherwise: not for an empty digest, and not in a run the
\* GraphQL response ended (a status other than 200, or no data node).
C1_WebhookPostedIffDigest ==
    /\ Len(CallsTo("slack")) <= 1
    /\ pc # "done" => Len(CallsTo("slack")) = 0
    /\ pc = "done" =>
           Len(CallsTo("slack")) = (IF Formatted /\ message # "" THEN 1 ELSE 0)
    /\ \A i \in 1..Len(calls) :
           calls[i].api = "slack" => calls[i].text = SlackText(message)

C1_Posted ==
    pc = "done" /\ message # "" /\ Len(CallsTo("slack")) = 1

ListedNames(cfg) ==
    IF "pr_skip_repositories" \in DOMAIN cfg
    THEN LET names == Split(cfg["pr_skip_repositories"], ",")
         IN  {names[i] : i \in 1..Len(names)}
    ELSE {}

RECURSIVE BlocksOf(_, _, _)
BlocksOf(edges, skipped, t) ==
    IF edges = <<>>
    THEN ""
    ELSE (IF Head(edges).repository.name \in skipped
          THEN ""
          ELSE PRBlock(Head(edges), t))
         \o BlocksOf(Tail(edges), skipped, t)

\* C2: the digest is the concatenation, in response order, of one block per
\* pull request whose repository is not a name of the skip-list, and is
\* empty exactly when no pull request qualifies.
C2_DigestIsQualifyingBlocks ==
    Formatted =>
        LET edges == result.json.data.search.edges
            skipped == ListedNames(config)
        IN  /\ message = BlocksOf(edges, skipped, now)
            /\ message = "" <=>
                   \A i \in 1..Len(edges) : edges[i].repository.name \in skipped

\* C3: a run that returns returns the digest string, the empty string
\* included; a 200 response without the data node returns the empty digest.
C3_ReturnsDigestString ==
    pc = "done" => ret = PyStr(message)

\* C8: a webhook status other than 200 does not fail the run: the run
\* returns the digest it posted, and has posted once.
C8_WebhookFailureNonFatal ==
    (Responded(r) /\ r.status_code # 200) =>
        /\ pc = "done"
        /\ ret = PyStr(message)
        /\ Len(CallsTo("slack")) = 1
        /\ calls[Len(calls)].api = "slack"
        /\ calls[Len(calls)].text = SlackText(ret.value)

C8_WebhookFailed ==
    Responded(r) /\ r.status_code = 500 /\ pc = "done" /\ ret.tag = "str"

Rank(api) == CASE api = "ssm" -> 1 [] api = "graphql" -> 2 [] api = "slack" -> 3

\* C10: the external calls come in the order configuration load, GraphQL
\* request, webhook post; the GraphQL request is made at most once and after
\* the load has completed, the post at most once and after a 200 response
\* with a data node was formatted; nothing is called again after a failure.
C10_CallsInOrder ==
    /\ \A i, j \in 1..Len(calls) :
           i < j => /\ Rank(calls[i].api) <= Rank(calls[j].api)
                    /\ calls[i] # calls[j]
    /\ Len(CallsTo("graphql")) <= 1
    /\ Len(CallsTo("slack")) <= 1
    /\ Len(CallsTo("graphql")) = 1 =>
           more = PyFalse /\ Len(CallsTo("ssm")) = Len(ssm_pages)
    /\ Len(CallsTo("slack")) = 1 => Formatted /\ Len(CallsTo("graphql")) = 1
    /\ pc = "failed" => calls = CallsTo("ssm")
    /\ (Responded(result) /\ (BadStatus(result) \/ InvalidData(result.json))) =>
           pc = "done" /\ calls[Len(calls)].api = "graphql"

C10_AllThreeCalled ==
    /\ pc = "done"
    /\ Len(calls) = 4
    /\ Len(CallsTo("ssm")) = 2
    /\ calls[3].api = "graphql"
    /\ calls[4].api = "slack"

----------------------------------------------------------------------------
(* The loader (SpecLoader) *)

\* C7: load_params asks for one page after the other, the first request
\* without a token and every later one with the token of the page before,
\* stops after the page that carries none, and returns a mapping with one
\* entry for every parameter of every page.
C7_LoaderFollowsPages ==
    LET requests == CallsTo("ssm")
        parameters == {<<k, i>> \in (1..Len(ssm_pages)) \X (1..Len(RequiredParameters) + 1) :
                           i <= Len(ssm_pages[k].Parameters)}
    IN  /\ Len(requests) <= Len(ssm_pages)
        /\ \A k \in 1..Len(requests) :
               IF k = 1
               THEN "NextToken" \notin DOMAIN requests[k].args
               ELSE /\ "NextToken" \in DOMAIN requests[k].args
                    /\ requests[k].args.NextToken = ssm_pages[k - 1].NextToken
        /\ pc = "load" => Len(requests) < Len(ssm_pages)
        /\ pc \notin {"load", "failed"} =>
               /\ Len(requests) = Len(ssm_pages)
               /\ more = PyFalse
               /\ \A p \in parameters :
                      LET param == ssm_pages[p[1]].Parameters[p[2]]
                      IN  \E key \in DOMAIN config :
                              /\ param.Name = Path \o key
                              /\ config[key] = param.Value
               /\ Cardinality(DOMAIN config) = Cardinality(parameters)

C7_LoadedThreePages ==
    /\ pc = "fetch"
    /\ Len(ssm_pages) = 3
    /\ Len(CallsTo("ssm")) = 3
    /\ "pr_skip_repositories" \in DOMAIN config

----------------------------------------------------------------------------
(* The age of a pull request (SpecAge) *)

AgeText(n, unit) ==
    ToString(n) \o " " \o unit \o (IF n = 1 THEN "" ELSE "s") \o " ago"

\* C4: the relative creation time of a pull request in the digest counts the
\* whole days of the elapsed time when that is a day or more, else the whole
\* hours when it is an hour or more, else the whole minutes, with the unit
\* in the singular exactly for a count of 1.
C4_RelativeTime ==
    BlockWritten =>
        LET days == AgeText(Elapsed \div SecondsPerDay, "day")
        IN  /\ Elapsed >= SecondsPerDay =>
                   time_since_created \in
                       {days, days \o " :warning:", days \o " :fire:"}
            /\ (Elapsed < SecondsPerDay /\ Elapsed >= 3600) =>
                   time_since_created = AgeText(Elapsed \div 3600, "hour")
            /\ Elapsed < 3600 =>
                   time_since_created = AgeText(Elapsed \div 60, "minute")
            /\ Elapsed = 90 * 60 => time_since_created = "1 hour ago"
            /\ Elapsed = 45 * 60 => time_since_created = "45 minutes ago"
            /\ Elapsed = SecondsPerDay => time_since_created = "1 day ago"
            /\ Contains(block, " Created: " \o time_since_created \o "\n")

C4_NinetyMinutes ==
    BlockWritten /\ Elapsed = 90 * 60 /\ time_since_created = "1 hour ago"

\* C5: the relative time carries the warning marker exactly for whole-day
\* ages 4 and 5, the alert marker exactly from 6 days on, no marker
\* otherwise, and never both.
C5_AgeMarkers ==
    BlockWritten =>
        LET days == Elapsed \div SecondsPerDay
        IN  /\ Contains(time_since_created, ":warning:") <=> (3 < days /\ days < 6)
            /\ Contains(time_since_created, ":fire:") <=> days >= 6
            /\ ~(Contains(block, ":warning:") /\ Contains(block, ":fire:"))
            /\ Occurrences(block, ":warning:") + Occurrences(block, ":fire:") <= 1

C5_FourDaysWarned ==
    /\ BlockWritten
    /\ Elapsed \div SecondsPerDay = 4
    /\ Contains(block, "4 days ago :warning:\n")

----------------------------------------------------------------------------
(* The reviews of a pull request (SpecReview) *)

ReviewCount(pr, state) ==
    Cardinality({i \in 1..Len(pr.reviews.edges) : pr.reviews.edges[i] = state})

CountedItem(n, noun) == ToString(n) \o " " \o noun \o (IF n = 1 THEN "" ELSE "s")

\* the non-zero counts, in the order approvals, comments, dismissed approvals
ListedItems(pr) ==
    LET all == <<[n |-> ReviewCount(pr, "APPROVED"), noun |-> "approval"],
                 [n |-> ReviewCount(pr, "COMMENTED"), noun |-> "comment"],
                 [n |-> ReviewCount(pr, "DISMISSED"), noun |-> "dismissed approval"]>>
    IN  SelectSeq(all, LAMBDA x : x.n # 0)

RECURSIVE CommaJoined(_)
CommaJoined(items) ==
    IF items = <<>> THEN ""
    ELSE IF Len(items) = 1 THEN CountedItem(items[1].n, items[1].noun)
    ELSE CountedItem(items[1].n, items[1].noun) \o ", " \o CommaJoined(Tail(items))

\* C6: the block has an Activity line exactly when a count of approvals,
\* comments or dismissed approvals is not zero, and the line lists the
\* non-zero counts in that order, joined by a comma between two items only.
C6_ActivityLine ==
    BlockWritten =>
        IF ListedItems(LastPR) = <<>>
        THEN ~Contains(block, "Activity:")
        ELSE /\ Occurrences(block, "Activity:") = 1
             /\ Contains(block, " Activity: " \o CommaJoined(ListedItems(LastPR)) \o ".\n")

\* C9: the block has the changes-requested line exactly when a returned
\* review has the state CHANGES_REQUESTED, and has it once at most.
C9_ChangesRequestedLine ==
    BlockWritten =>
        /\ Contains(block, ChangesRequestedText)
               <=> ReviewCount(LastPR, "CHANGES_REQUESTED") > 0
        /\ Occurrences(block, ChangesRequestedText) <= 1

C9_TwoChangesRequested ==
    /\ BlockWritten
    /\ ReviewCount(LastPR, "CHANGES_REQUESTED") = 2
    /\ Occurrences(block, ChangesRequestedText) = 1

====
